---- MODULE Spec2Model ----
(***************************************************************************)
(* Capture sequencer of src/src/components/FullscreenCaptureModal.tsx.     *)
(*                                                                         *)
(* Time is discrete; one unit of the model clock is 1000 ms, the period of *)
(* the countdown tick.  Every setTimeout of the component is a pending     *)
(* timer with a remaining time; a timer whose remaining time is 0 fires    *)
(* before the clock advances.  lastFrameTimeRef is kept as the time that   *)
(* has passed since it was set (sinceLastFrame), saturated at the frame    *)
(* interval, which is all the sampling gate reads.                         *)
(*                                                                         *)
(* A ref/state pair that the component always writes together              *)
(* (recording/recordingRef, paused/pausedRef, frames/framesRef,            *)
(* label/labelRef, user/userRef, completedCaptures/completedCapturesRef)   *)
(* is one variable, named after the ref.                                   *)
(*                                                                         *)
(* Coordinates and visibilities are fixed-point numbers scaled by 100.     *)
(* Only the x coordinate of a landmark is carried: y and z go through the  *)
(* same expressions as x.                                                  *)
(***************************************************************************)
EXTENDS Integers, Sequences, FiniteSets, TLC

\* ------------------------------------------------------------------ bounds
\* TARGET_FRAMES (60 in src/src/config/capture.ts) scaled to the clock.
FIXED_TARGET_FRAMES == 2
\* CAPTURE_COUNT (5 in src/src/config/capture.ts) scaled down.
FIXED_CAPTURE_COUNT == 2
\* FRAME_INTERVAL_MS (33 ms in the source) in clock units.
FRAME_INTERVAL_MS == 1
\* the backup timeout (30000 ms in the source) in clock units, scaled down.
BACKUP_TIMEOUT == 4
\* number of record-start timers that may be pending at once.
MaxTimers == 2
\* landmarks per detected hand.
MaxLandmarks == 1
\* onSampleCapture calls counted per batch (the counter saturates).
MaxSamples == 3
\* detection callbacks of the classifier specification.
MaxCallbacks == 2
\* files in the uploader's list.
MaxFiles == 2
\* largest pool size the slider is moved to (10 in the source).
MaxConcurrency == 2

MaxQualityFrames == 5
MaxMirrorPushes == 8
MaxCaptures == 4

\* --------------------------------------------------------------- constants
COUNTDOWN_START == 3
COUNTDOWN_TICK == 1
RECORD_DELAY == 3
SETTLE_DELAY == 2
FINAL_RESET_DELAY == 1
PRESENCE_HISTORY_SIZE == 5
RenderAlphaPct == 85
VisibilityThresholdPct == 50
FilterMinCutoffPct == 100
FilterBetaPct == 1
DEFAULT_CONCURRENCY == 3

NoTimer == -1
NoVis == -1
NoFrame == NoTimer

Users == {"", "u"}
\* the initialLabel prop of the sequencer specification
InitLabels == {"", "a"}

VARIABLES
  mode,                     \* 'IDLE' | 'COUNTDOWN' | 'RECORD'
  recordingRef,             \* recording / recordingRef.current
  pausedRef,                \* paused / pausedRef.current
  framesRef,                \* frames / framesRef.current
  labelRef,                 \* label / labelRef.current
  userRef,                  \* user / userRef.current
  countdown,                \* countdown state
  completedCapturesRef,     \* completedCaptures / completedCapturesRef.current
  isReady,                  \* isReady state
  sinceLastFrame,           \* min(Date.now() - lastFrameTimeRef.current, FRAME_INTERVAL_MS)
  timers,                   \* pending setTimeout callbacks: [kind, rem]
  tickTimer,                \* the countdown effect's 1 s timer (remaining time or NoTimer)
  backupTimer,              \* the countdown effect's backup timer (remaining time or NoTimer)
  swapHandedness,           \* SWAP_HANDEDNESS of the build
  isOpen,                   \* the modal is mounted and open
  setup,                    \* the camera setup effect: 'permission' (getUserMedia pending), 'starting' (camera.start() pending), 'done', 'failed'
  cameraRef,                \* cameraRef.current is set
  files,                    \* the uploader's file list: [status, message, label, user, size, poolSubmits]
  concurrency,              \* the uploader's pool size setting
  uploadingAll,             \* uploadingAll state of the uploader
  pool,                     \* the running uploadAll: pendingFiles, idx and the item each worker awaits (0: worker returned)
  retries,                  \* items whose upload from the retry button is in flight
  camera,                   \* the Camera object: 'none', 'starting' (start() called), 'running', 'stopped' (stop() called, or start failed)
  leftPresenceHistoryRef,
  rightPresenceHistoryRef,
  renderPrevRef,
  lastRenderedLeftRef,
  lastRenderedRightRef,
  filtersRef,
  runB,                     \* render state, filters and buffer of a second run fed in lockstep
  lastCapture,              \* lengths of captureLeft / captureRight in the last callback that passed the gate
  lastSample,               \* the last call of onSampleCapture, <<>> when there was none
  samplesInBatch,           \* calls of onSampleCapture since the last accepted start
  batchLabel,               \* labelRef at the last accepted start
  batchUser,                \* userRef at the last accepted start
  visibilityStateRef,       \* visibilityStateRef.current: the smoothed presence of each side
  lastResults,              \* the detector result of the last callback
  lastClassified,           \* leftHandLandmarks / rightHandLandmarks of the last callback
  sinceLastAppend,          \* time since the last frame of the buffer was appended, saturated (NoFrame: empty buffer)
  scenario,                 \* the sampling gate fed a fixed train of detection frames
  qualityFrames,            \* a captured frameset handed to computeQuality
  quality,                  \* what computeQuality returned for it
  mirror,                   \* one capture with the frames state, its pending update and its pending effect
  collector,                \* CaptureCamera: samples, sampleCounter, uploads in flight, onError calls
  op                        \* the handler that ran last

seqVars == <<mode, recordingRef, pausedRef, framesRef, countdown,
             completedCapturesRef, sinceLastFrame, timers, tickTimer, backupTimer>>
idVars == <<labelRef, userRef>>
detVars == <<leftPresenceHistoryRef, rightPresenceHistoryRef, renderPrevRef,
             lastRenderedLeftRef, lastRenderedRightRef, filtersRef>>
histVars == <<lastCapture, lastSample, samplesInBatch, batchLabel, batchUser>>
obsVars == <<visibilityStateRef, lastResults, lastClassified>>
camVars == <<isOpen, setup, cameraRef, camera>>
probeVars == <<scenario, qualityFrames, quality, mirror, collector>>
\* state of the batch uploader, a component of its own
pageVars == <<files, concurrency, uploadingAll, pool, retries>>
vars == <<mode, recordingRef, pausedRef, framesRef, labelRef, userRef, countdown,
          completedCapturesRef, isReady, sinceLastFrame, timers, tickTimer,
          backupTimer, swapHandedness, isOpen, setup, cameraRef, camera,
          files, concurrency, uploadingAll, pool, retries,
          leftPresenceHistoryRef,
          rightPresenceHistoryRef, renderPrevRef, lastRenderedLeftRef,
          lastRenderedRightRef, filtersRef, runB, lastCapture, lastSample, samplesInBatch,
          batchLabel, batchUser, visibilityStateRef, lastResults, lastClassified,
          sinceLastAppend, scenario, qualityFrames, quality, mirror, collector, op>>

\* ------------------------------------------------------------ landmark data
Abs(n) == IF n < 0 THEN -n ELSE n

Lm(x, v) == [x |-> x, visibility |-> v]

\* an optional landmark array: undefined, or an array (possibly empty)
Undefined == [def |-> FALSE, lms |-> <<>>]
Arr(l) == [def |-> TRUE, lms |-> l]

Groups == {"leftHand", "rightHand"}
RenderKeys == Groups \X (1..MaxLandmarks)
FilterKeys == Groups \X (1..MaxLandmarks) \X {"x", "v"}

\* ------------------------------------------------------- landmark classifier
EffectiveLabel(rawLabel, swap) ==
  IF swap
  THEN IF rawLabel = "Left" THEN "Right"
       ELSE IF rawLabel = "Right" THEN "Left" ELSE rawLabel
  ELSE rawLabel

RECURSIVE ClassifyLastWins(_, _, _, _)
ClassifyLastWins(dets, i, swap, acc) ==
  IF i > Len(dets) THEN acc
  ELSE LET lm == dets[i].lms
           effectiveLabel == EffectiveLabel(dets[i].label, swap)
           next == IF effectiveLabel = "Left"
                   THEN [acc EXCEPT !.left = Arr(lm)]
                   ELSE IF effectiveLabel = "Right"
                        THEN [acc EXCEPT !.right = Arr(lm)]
                        ELSE acc
       IN ClassifyLastWins(dets, i + 1, swap, next)

RECURSIVE ClassifyFrom(_, _, _, _)
ClassifyFrom(dets, i, swap, acc) ==
  IF i > Len(dets) THEN acc
  ELSE LET lm == dets[i].lms
           effectiveLabel == EffectiveLabel(dets[i].label, swap)
           next == IF effectiveLabel = "Left" /\ ~acc.left.def
                   THEN [acc EXCEPT !.left = Arr(lm)]
                   ELSE IF effectiveLabel = "Right" /\ ~acc.right.def
                        THEN [acc EXCEPT !.right = Arr(lm)]
                        ELSE acc
       IN ClassifyFrom(dets, i + 1, swap, next)

\* leftHandLandmarks / rightHandLandmarks of one callback
Classify(dets, swap) ==
  ClassifyFrom(dets, 1, swap, [left |-> Undefined, right |-> Undefined])

DetectedNow(h) == h.def /\ Len(h.lms) > 0

\* ------------------------------------------------------------ presence voter
PushPresence(history, detected) ==
  LET pushed == Append(history, detected)
  IN IF Len(pushed) > PRESENCE_HISTORY_SIZE THEN Tail(pushed) ELSE pushed

Votes(history) == Cardinality({i \in 1..Len(history) : history[i]})

SmoothedVisibleAtHalf(history) == 2 * Votes(history) >= Len(history)

\* votes > history.length / 2
SmoothedVisible(history) == 2 * Votes(history) > Len(history)

\* -------------------------------------------------------- render interpolator
\* lerp(a, b, renderAlpha) in fixed point
Lerp(a, b) == a + ((b - a) * RenderAlphaPct) \div 100

RenderOne(lm, prevSlot) ==
  IF prevSlot = <<>> THEN lm
  ELSE LET prevLm == prevSlot[1]
           nx == Lerp(prevLm.x, lm.x)
           nv == IF lm.visibility # NoVis
                 THEN Lerp(IF prevLm.visibility # NoVis THEN prevLm.visibility
                           ELSE lm.visibility, lm.visibility)
                 ELSE prevLm.visibility
       IN Lm(nx, nv)

\* getRenderLandmarks(raw, group): the landmarks drawn, and renderPrevRef after it
GetRenderLandmarks(raw, group, prev) ==
  IF ~raw.def THEN [out |-> <<>>, prev |-> prev]
  ELSE [out |-> [idx \in 1..Len(raw.lms) |-> RenderOne(raw.lms[idx], prev[<<group, idx>>])],
        prev |-> [k \in RenderKeys |->
                    IF k[1] = group /\ k[2] <= Len(raw.lms)
                    THEN <<RenderOne(raw.lms[k[2]], prev[k])>>
                    ELSE prev[k]]]

RenderSideKeepsLast(raw, detectedNow, smoothedVisible, lastRendered, group, prev) ==
  IF detectedNow
  THEN LET g == GetRenderLandmarks(raw, group, prev)
       IN [last |-> Arr(g.out), prev |-> g.prev]
  ELSE [last |-> lastRendered, prev |-> prev]

\* lines 681-688 / 690-697: the landmarks drawn for one side and the
\* lastRendered ref of that side
RenderSide(raw, detectedNow, smoothedVisible, lastRendered, group, prev) ==
  IF detectedNow
  THEN LET g == GetRenderLandmarks(raw, group, prev)
       IN [last |-> Arr(g.out), prev |-> g.prev]
  ELSE IF smoothedVisible /\ lastRendered.def
       THEN [last |-> lastRendered, prev |-> prev]
       ELSE [last |-> Undefined, prev |-> prev]

\* ------------------------------------------------------------ one-euro filter
\* OneEuroFilter.filter: the first call returns the raw value; later calls
\* low-pass it with a cutoff that grows with the speed of the signal.
OneEuroFilter(slot, raw) ==
  IF slot = <<>> THEN raw
  ELSE LET prev == slot[1]
           cutoff == FilterMinCutoffPct + FilterBetaPct * Abs(raw - prev)
           r == (628 * cutoff) \div 100
           alpha == (100 * r) \div (r + 100)
       IN prev + ((raw - prev) * alpha) \div 100

FilterOne(lm, group, idx, filters) ==
  Lm(OneEuroFilter(filters[<<group, idx, "x">>], lm.x),
     IF lm.visibility # NoVis
     THEN OneEuroFilter(filters[<<group, idx, "v">>], lm.visibility)
     ELSE lm.visibility)

\* filterLandmarks(landmarks, group): the filtered copy, and filtersRef after it
FilterLandmarks(landmarks, group, filters) ==
  IF ~landmarks.def THEN [out |-> <<>>, filters |-> filters]
  ELSE [out |-> [idx \in 1..Len(landmarks.lms) |->
                   FilterOne(landmarks.lms[idx], group, idx, filters)],
        filters |-> [k \in FilterKeys |->
                       IF k[1] = group /\ k[2] <= Len(landmarks.lms)
                          /\ (k[3] = "x" \/ landmarks.lms[k[2]].visibility # NoVis)
                       THEN <<FilterOne(landmarks.lms[k[2]], group, k[2], filters)
                                [IF k[3] = "x" THEN "x" ELSE "visibility"]>>
                       ELSE filters[k]]]

\* ------------------------------------------------------------ capture of one frame
\* lines 718-726: current detection, else the last rendered landmarks
CaptureSide(raw, smoothedVisible, lastRendered) ==
  IF ~raw.def /\ smoothedVisible /\ lastRendered.def THEN lastRendered ELSE raw

\* captureX.some(lm => typeof lm.visibility === 'number' ? lm.visibility >= 0.5 : true)
SideVisible(capture) ==
  capture.def /\ \E i \in 1..Len(capture.lms) :
     IF capture.lms[i].visibility # NoVis
     THEN capture.lms[i].visibility >= VisibilityThresholdPct ELSE TRUE

SideHas(capture) == Len(capture.lms) > 0

CapturingWhilePaused(rec, paused) == rec

\* recordingRef.current && !pausedRef.current
Capturing(rec, paused) == rec /\ ~paused

GateAlwaysOpen(elapsed, interval) == TRUE

\* the sampling gate: a callback returns early while
\* currentTime - lastFrameTimeRef.current < frameIntervalMs.current
GateOpen(elapsed, interval) == ~(elapsed < interval)

AcceptsEveryFrame(captureLeft, captureRight) == TRUE

\* anyVisible || anyHands
Accepts(captureLeft, captureRight) ==
  \/ SideVisible(captureLeft) \/ SideVisible(captureRight)
  \/ SideHas(captureLeft) \/ SideHas(captureRight)

\* one run's data path through a callback: the refs after the render part,
\* the capture landmark sets, and the frame and filters if the frame is stored
DataStep(c, leftSmoothedVisible, rightSmoothedVisible, prev, lastLeft, lastRight, filters) ==
  LET rl == RenderSide(c.left, DetectedNow(c.left), leftSmoothedVisible, lastLeft, "leftHand", prev)
      rr == RenderSide(c.right, DetectedNow(c.right), rightSmoothedVisible, lastRight, "rightHand", rl.prev)
      captureLeft == CaptureSide(c.left, leftSmoothedVisible, rl.last)
      captureRight == CaptureSide(c.right, rightSmoothedVisible, rr.last)
      fl == FilterLandmarks(captureLeft, "leftHand", filters)
      fr == FilterLandmarks(captureRight, "rightHand", fl.filters)
  IN [prev |-> rr.prev, lastLeft |-> rl.last, lastRight |-> rr.last,
      captureLeft |-> captureLeft, captureRight |-> captureRight,
      accept |-> Accepts(captureLeft, captureRight),
      frame |-> [left_hand |-> fl.out, right_hand |-> fr.out],
      filters |-> fr.filters]


\* ---------------------------------------------------------------- quality metrics
\* a quotient of two counts (the code computes it in floating point)
Frac(n, d) == [num |-> n, den |-> d]

FrameAcceptedBothHands(leftCount, rightCount) == leftCount > 0 /\ rightCount > 0

\* handCount > 0
FrameAccepted(leftCount, rightCount) == leftCount + rightCount > 0

\* sum and number of the landmarks' numeric visibilities
RECURSIVE ConfOf(_, _)
ConfOf(lms, i) ==
  IF i > Len(lms) THEN [sum |-> 0, cnt |-> 0]
  ELSE LET rest == ConfOf(lms, i + 1)
       IN IF lms[i].visibility # NoVis
          THEN [sum |-> rest.sum + lms[i].visibility, cnt |-> rest.cnt + 1]
          ELSE rest

\* the loop of computeQuality from frame i on
RECURSIVE QualityLoop(_, _, _)
QualityLoop(capturedFrames, i, acc) ==
  IF i > Len(capturedFrames) THEN acc
  ELSE LET f == capturedFrames[i]
           leftCount == Len(f.left_hand)
           rightCount == Len(f.right_hand)
           handCount == leftCount + rightCount
           conf == ConfOf(f.left_hand \o f.right_hand, 1)
       IN QualityLoop(capturedFrames, i + 1,
            [totalHandLandmarks |-> acc.totalHandLandmarks + handCount,
             framesWithHands |-> acc.framesWithHands + (IF handCount > 0 THEN 1 ELSE 0),
             framesAccepted |-> acc.framesAccepted
                                 + (IF FrameAccepted(leftCount, rightCount) THEN 1 ELSE 0),
             confidenceSum |-> acc.confidenceSum + conf.sum,
             confidenceCount |-> acc.confidenceCount + conf.cnt])

computeQuality(capturedFrames) ==
  LET n == Len(capturedFrames)
      acc == QualityLoop(capturedFrames, 1,
               [totalHandLandmarks |-> 0, framesWithHands |-> 0, framesAccepted |-> 0,
                confidenceSum |-> 0, confidenceCount |-> 0])
  IN [framesCollected |-> n,
      framesAccepted |-> acc.framesAccepted,
      avgPoseLandmarksPerFrame |-> IF n # 0 THEN Frac(acc.totalHandLandmarks, n) ELSE Frac(0, 1),
      percentFramesWithHands |-> IF n # 0 THEN Frac(acc.framesWithHands * 100, n) ELSE Frac(0, 1),
      confidenceSummary |-> IF acc.confidenceCount # 0
                            THEN <<Frac(acc.confidenceSum, acc.confidenceCount)>> ELSE <<>>]

\* ---------------------------------------------------------------- gate scenario
\* a capture of 60 frames, the only one of its batch, stored at most every
\* 100 ms, fed 200 detection frames 10 ms apart
Scenario == [target |-> 60, captures |-> 1, interval |-> 100, spacing |-> 10, frames |-> 200]

\* when the first frame arrives, in ms after recording began
ScenarioPhases == {0, 5, 100}

ScenarioStart == [fed |-> 0, now |-> 0, lastFrameTime |-> 0, recording |-> TRUE,
                  buffered |-> 0, emitted |-> 0, sampleLen |-> 0]

\* no setFrames call waiting for a render, no effect waiting to run
NoArray == <<0>>

\* frames of the capture that tests the mirroring: two more than
\* FIXED_TARGET_FRAMES, so that several callbacks fall inside one capture
MirrorTarget == FIXED_TARGET_FRAMES + 2

\* a capture that has just started: recordingRef set by the record timer,
\* frames state and framesRef empty and in step.  pushed lists the frames
\* the capture pushed, sample is the Sample it emitted
MirrorStart == [recording |-> TRUE, framesRef |-> <<>>, frames |-> <<>>,
                update |-> NoArray, effect |-> NoArray, pushed |-> <<>>, sample |-> <<>>]

\* CaptureCamera as mounted: useState([]) for samples, useState(1) for
\* sampleCounter.  captures counts the calls of handleFullscreenCapture
CollectorStart == [samples |-> <<>>, sampleCounter |-> 1, uploads |-> {},
                   captures |-> 0, errors |-> 0]

\* ---------------------------------------------------------------- uploader data
\* uploadedId of an item that has none, and the id the backend answers with
NoId == 0

BackendId == 1

\* no uploadAll running.  snapshotIds are the uploadedId fields of the objects
\* in pendingFiles, results the array uploadAll collects, onSuccess the
\* argument of the onSuccess call of the last uploadAll (empty: not called)
NoPool == [items |-> <<>>, idx |-> 0, workers |-> <<>>, concurrency |-> 0,
           snapshotIds |-> <<>>, results |-> <<>>, onSuccess |-> <<>>]

\* the limit of validateFile, in MB
MAX_FILE_MB == 100

\* a file as addFiles enters it: label and user as typed or taken from the
\* defaults, size in MB
FileItem(shape) == [status |-> "pending", message |-> "", label |-> shape.label,
                    user |-> shape.user, size |-> shape.size, uploadedId |-> NoId,
                    poolSubmits |-> 0]

\* files that differ in label only: one passes validateFile, one does not
LabelShapes == {[label |-> l, user |-> "u", size |-> MAX_FILE_MB] : l \in {"", "a"}}

\* files failing validateFile for each of its reasons, and one that passes
AllShapes == LabelShapes \cup {[label |-> " ", user |-> "u", size |-> MAX_FILE_MB],
                               [label |-> "a", user |-> "", size |-> MAX_FILE_MB],
                               [label |-> "a", user |-> "u", size |-> MAX_FILE_MB + 1]}

\* ---------------------------------------------------------------- initial state
FreshRun == [renderPrev |-> [k \in RenderKeys |-> <<>>],
             lastLeft |-> Undefined, lastRight |-> Undefined,
             filters |-> [k \in FilterKeys |-> <<>>],
             frames |-> <<>>]

Init ==
  /\ mode = "IDLE"
  /\ recordingRef = FALSE
  /\ pausedRef = FALSE
  /\ framesRef = <<>>
  /\ labelRef \in InitLabels
  /\ userRef \in Users
  /\ countdown = 0
  /\ completedCapturesRef = 0
  /\ isReady = FALSE
  /\ sinceLastFrame = FRAME_INTERVAL_MS
  /\ timers = {}
  /\ tickTimer = NoTimer
  /\ backupTimer = NoTimer
  /\ swapHandedness \in BOOLEAN
  /\ isOpen = TRUE
  /\ files = <<>>
  /\ concurrency = DEFAULT_CONCURRENCY
  /\ uploadingAll = FALSE
  /\ sinceLastAppend = NoFrame
  /\ scenario = ScenarioStart
  /\ qualityFrames = <<>>
  /\ quality = computeQuality(<<>>)
  /\ mirror = MirrorStart
  /\ collector = CollectorStart
  /\ pool = NoPool
  /\ retries = {}
  /\ setup \in {"permission", "starting"}
  /\ cameraRef = (setup = "starting")
  /\ camera = IF setup = "starting" THEN "starting" ELSE "none"
  /\ leftPresenceHistoryRef = <<>>
  /\ rightPresenceHistoryRef = <<>>
  /\ renderPrevRef = FreshRun.renderPrev
  /\ lastRenderedLeftRef = Undefined
  /\ lastRenderedRightRef = Undefined
  /\ filtersRef = FreshRun.filters
  /\ runB = FreshRun
  /\ lastCapture = [left |-> 0, right |-> 0]
  /\ lastSample = <<>>
  /\ samplesInBatch = 0
  /\ batchLabel = ""
  /\ batchUser = ""
  /\ visibilityStateRef = [left |-> FALSE, right |-> FALSE]
  /\ lastResults = <<>>
  /\ lastClassified = [left |-> Undefined, right |-> Undefined]
  /\ op = "init"

\* ---------------------------------------------------------------- helpers
Min(a, b) == IF a < b THEN a ELSE b

\* the countdown effect (deps: countdown, recording): a change of either
\* clears the effect's timer and arms the one the new values call for
EffectTick(cd, rec) ==
  IF cd = countdown /\ rec = recordingRef THEN tickTimer
  ELSE IF cd > 0 THEN COUNTDOWN_TICK ELSE NoTimer

EffectBackup(cd, rec) ==
  IF cd = countdown /\ rec = recordingRef THEN backupTimer
  ELSE IF cd = 0 /\ rec THEN BACKUP_TIMEOUT ELSE NoTimer

Effects(cd, rec) ==
  /\ tickTimer' = EffectTick(cd, rec)
  /\ backupTimer' = EffectBackup(cd, rec)

\* useState(() => Date.now().toString()) of CaptureCamera
sessionId == "session"

PayloadFrameOneBased(frame, idx) == [timestamp |-> idx + 1, landmarks |-> frame]

\* (frame, idx) => ({ timestamp: idx, landmarks: frame })
PayloadFrame(frame, idx) == [timestamp |-> idx, landmarks |-> frame]

\* the payload handleFullscreenCapture hands to uploadCamera
Payload(capturedFrames, capturedLabel, capturedUser) ==
  [user |-> capturedUser, label |-> capturedLabel, session_id |-> sessionId,
   frames |-> [i \in 1..Len(capturedFrames) |-> PayloadFrame(capturedFrames[i], i - 1)]]

\* onSampleCaptureRef.current(frames, labelRef.current, userRef.current, ...),
\* which is handleFullscreenCapture
Emit(capturedFrames) ==
  /\ lastSample' = <<[frames |-> capturedFrames, label |-> labelRef, user |-> userRef,
                       payload |-> Payload(capturedFrames, labelRef, userRef),
                       bit |-> IF lastSample = <<>> THEN 0 ELSE 1 - lastSample[1].bit]>>
  /\ samplesInBatch' = Min(samplesInBatch + 1, MaxSamples)

NoEmit == UNCHANGED <<lastSample, samplesInBatch>>

StopBlockedOffByOne(collected) == collected < FIXED_TARGET_FRAMES - 1

\* collected < required (handleStop and the Enter-key stop)
StopBlocked(collected) == collected < FIXED_TARGET_FRAMES

\* framesRef.current.length >= FIXED_TARGET_FRAMES
\* framesRef.current.length >= the target
ReachedTarget(n, target) == n >= target

TargetReached(buffer) == ReachedTarget(Len(buffer), FIXED_TARGET_FRAMES)

NextCaptureFollowsOffByOne(newCompleted) == newCompleted <= FIXED_CAPTURE_COUNT

\* newCompleted < FIXED_CAPTURE_COUNT
NextCaptureFollows(newCompleted) == newCompleted < FIXED_CAPTURE_COUNT

EnterStartsWithoutUser(rec, label, user) == ~rec /\ label # ""

\* !recordingRef.current && labelRef.current && userRef.current
EnterStarts(rec, label, user) == ~rec /\ label # "" /\ user # ""

\* the time since the last append, after a handler that leaves the buffer as
\* `after`
AppendClock(after) ==
  IF Len(after) = 0 THEN NoFrame
  ELSE IF Len(after) > Len(framesRef) THEN 0 ELSE sinceLastAppend

RecordTimers == {t \in timers : t.kind \in {"record", "recordEnter"}}

Timer(kind, rem) == [kind |-> kind, rem |-> rem]

\* ---------------------------------------------------------------- start
\* the body shared by handleQuickCapture and the Enter-key start
StartSequence(kind) ==
  /\ framesRef' = <<>>
  /\ runB' = [runB EXCEPT !.frames = <<>>]
  /\ completedCapturesRef' = 0
  /\ countdown' = COUNTDOWN_START
  /\ mode' = "COUNTDOWN"
  /\ timers' = timers \cup {Timer(kind, RECORD_DELAY)}
  /\ Effects(COUNTDOWN_START, recordingRef)
  /\ batchLabel' = labelRef
  /\ batchUser' = userRef
  /\ samplesInBatch' = 0
  /\ sinceLastAppend' = NoFrame
  /\ UNCHANGED <<recordingRef, pausedRef, labelRef, userRef, isReady, swapHandedness, pageVars, probeVars, camVars, obsVars,
                 detVars, lastCapture, lastSample>>

\* the Start button: rendered when countdown = 0 and not recording, disabled
\* unless label, user and isReady
HandleQuickCapture ==
  /\ countdown = 0 /\ ~recordingRef
  /\ labelRef # "" /\ userRef # "" /\ isReady
  /\ Cardinality(RecordTimers) < MaxTimers
  /\ IF labelRef = "" \/ userRef = ""
     THEN UNCHANGED <<seqVars, idVars, isReady, swapHandedness, pageVars, probeVars, sinceLastAppend, camVars, obsVars, detVars, runB, histVars>>
     ELSE /\ StartSequence("record")
          /\ sinceLastFrame' = FRAME_INTERVAL_MS
  /\ op' = "handleQuickCapture"

\* ---------------------------------------------------------------- stop
\* handleStop
HandleStop(name) ==
  IF StopBlocked(Len(framesRef))
  THEN /\ op' = "handleStopAlert"
       /\ backupTimer' = IF name = "backupTimer" THEN NoTimer ELSE backupTimer
       /\ UNCHANGED <<mode, recordingRef, pausedRef, framesRef, countdown,
                      completedCapturesRef, sinceLastFrame, timers, tickTimer,
                      idVars, isReady, swapHandedness, pageVars, probeVars, sinceLastAppend, camVars, obsVars, detVars, runB, histVars>>
  ELSE /\ op' = name
       /\ recordingRef' = FALSE
       /\ pausedRef' = FALSE
       /\ IF Len(framesRef) > 0
          THEN /\ Emit(framesRef)
               /\ framesRef' = <<>>
               /\ runB' = [runB EXCEPT !.frames = <<>>]
          ELSE NoEmit /\ UNCHANGED <<framesRef, runB>>
       /\ tickTimer' = EffectTick(countdown, FALSE)
       /\ backupTimer' = IF name = "backupTimer" /\ ~recordingRef THEN NoTimer
                         ELSE EffectBackup(countdown, FALSE)
       /\ sinceLastAppend' = NoFrame
       /\ UNCHANGED <<mode, countdown, completedCapturesRef, sinceLastFrame, timers,
                      idVars, isReady, swapHandedness, pageVars, probeVars, camVars, obsVars, detVars, lastCapture,
                      batchLabel, batchUser>>

\* the Stop button: rendered when countdown = 0, recording and not paused,
\* disabled while frames.length < FIXED_TARGET_FRAMES
StopButton ==
  /\ countdown = 0 /\ recordingRef /\ ~pausedRef
  /\ Len(framesRef) >= FIXED_TARGET_FRAMES
  /\ HandleStop("handleStop")

\* the save button of the paused overlay, rendered when recording, paused and
\* frames.length >= FIXED_TARGET_FRAMES
FinishButton ==
  /\ recordingRef /\ pausedRef
  /\ Len(framesRef) >= FIXED_TARGET_FRAMES
  /\ HandleStop("finish")

\* ---------------------------------------------------------------- pause
HandlePause ==
  /\ pausedRef' = TRUE
  /\ UNCHANGED <<mode, recordingRef, framesRef, countdown, completedCapturesRef,
                 sinceLastFrame, timers, tickTimer, backupTimer,
                 idVars, isReady, swapHandedness, pageVars, probeVars, sinceLastAppend, camVars, obsVars, detVars, runB, histVars>>

HandleResumeOpensGate ==
  /\ pausedRef' = FALSE
  /\ sinceLastFrame' = FRAME_INTERVAL_MS
  /\ UNCHANGED <<mode, recordingRef, framesRef, countdown, completedCapturesRef,
                 timers, tickTimer, backupTimer, sinceLastAppend,
                 idVars, isReady, swapHandedness, pageVars, probeVars, camVars, obsVars, detVars, runB, histVars>>

\* handleResume
HandleResume ==
  /\ pausedRef' = FALSE
  /\ sinceLastFrame' = 0
  /\ UNCHANGED <<mode, recordingRef, framesRef, countdown, completedCapturesRef,
                 timers, tickTimer, backupTimer,
                 idVars, isReady, swapHandedness, pageVars, probeVars, sinceLastAppend, camVars, obsVars, detVars, runB, histVars>>

HandleRestartKeepsFrames ==
  /\ pausedRef' = FALSE
  /\ sinceLastFrame' = 0
  /\ UNCHANGED <<mode, recordingRef, framesRef, countdown, completedCapturesRef,
                 timers, tickTimer, backupTimer,
                 idVars, isReady, swapHandedness, pageVars, probeVars, sinceLastAppend, camVars, obsVars, detVars, runB, histVars>>

\* handleRestart
HandleRestart ==
  /\ framesRef' = <<>>
  /\ runB' = [runB EXCEPT !.frames = <<>>]
  /\ pausedRef' = FALSE
  /\ sinceLastFrame' = 0
  /\ sinceLastAppend' = NoFrame
  /\ UNCHANGED <<mode, recordingRef, countdown, completedCapturesRef,
                 timers, tickTimer, backupTimer,
                 idVars, isReady, swapHandedness, pageVars, probeVars, camVars, obsVars, detVars, histVars>>

\* the Pause button: rendered when countdown = 0, recording and not paused
PauseButton ==
  /\ countdown = 0 /\ recordingRef /\ ~pausedRef
  /\ HandlePause
  /\ op' = "handlePause"

\* the buttons of the paused overlay, rendered when recording and paused
ResumeButton ==
  /\ recordingRef /\ pausedRef
  /\ HandleResume
  /\ op' = "handleResume"

RestartButton ==
  /\ recordingRef /\ pausedRef
  /\ HandleRestart
  /\ op' = "handleRestart"


\* ---------------------------------------------------------------- keyboard
\* handleKeyPress, e.code === 'Enter'
EnterKey ==
  IF EnterStarts(recordingRef, labelRef, userRef)
  THEN /\ Cardinality(RecordTimers) < MaxTimers
       /\ StartSequence("recordEnter")
       /\ UNCHANGED sinceLastFrame
       /\ op' = "EnterStart"
  ELSE IF recordingRef
  THEN IF StopBlocked(Len(framesRef))
       THEN /\ op' = "EnterAlert"
            /\ UNCHANGED <<seqVars, idVars, isReady, swapHandedness, pageVars, probeVars, sinceLastAppend, camVars, obsVars, detVars, runB, histVars>>
       ELSE /\ op' = "EnterStop"
            /\ recordingRef' = FALSE
            /\ IF Len(framesRef) > 0
               THEN /\ Emit(framesRef)
                    /\ framesRef' = <<>>
                    /\ runB' = [runB EXCEPT !.frames = <<>>]
               ELSE NoEmit /\ UNCHANGED <<framesRef, runB>>
            /\ Effects(countdown, FALSE)
            /\ sinceLastAppend' = NoFrame
            /\ UNCHANGED <<mode, pausedRef, countdown, completedCapturesRef,
                           sinceLastFrame, timers, idVars, isReady, swapHandedness, pageVars, probeVars, camVars, obsVars,
                           detVars, lastCapture, batchLabel, batchUser>>
  ELSE /\ op' = "EnterIgnored"
       /\ UNCHANGED <<seqVars, idVars, isReady, swapHandedness, pageVars, probeVars, sinceLastAppend, camVars, obsVars, detVars, runB, histVars>>

\* handleKeyPress, e.code === 'Space'
SpaceKey ==
  /\ IF recordingRef
     THEN IF pausedRef THEN HandleResume ELSE HandlePause
     ELSE UNCHANGED <<seqVars, idVars, isReady, swapHandedness, pageVars, probeVars, sinceLastAppend, camVars, obsVars, detVars, runB, histVars>>
  /\ op' = "Space"

\* handleKeyPress, e.code === 'KeyA': the guard of the abort branch
AbortAppliesAlways(rec) == TRUE

AbortApplies(rec) == rec

\* handleKeyPress, e.code === 'KeyA'
AbortKey ==
  /\ IF AbortApplies(recordingRef)
     THEN /\ recordingRef' = FALSE
          /\ pausedRef' = FALSE
          /\ framesRef' = <<>>
          /\ runB' = [runB EXCEPT !.frames = <<>>]
          /\ mode' = "IDLE"
          /\ Effects(countdown, FALSE)
          /\ sinceLastAppend' = NoFrame
          /\ UNCHANGED <<countdown, completedCapturesRef, sinceLastFrame, timers,
                         idVars, isReady, swapHandedness, pageVars, probeVars, camVars, obsVars, detVars, histVars>>
     ELSE UNCHANGED <<seqVars, idVars, isReady, swapHandedness, pageVars, probeVars, sinceLastAppend, camVars, obsVars, detVars, runB, histVars>>
  /\ op' = "KeyA"

\* ---------------------------------------------------------------- identity fields
\* the label input (disabled while recording or counting down) and the
\* speech button next to it (never disabled, delivers non-empty text)
SetLabel(text) ==
  /\ text # labelRef
  /\ (recordingRef \/ countdown > 0) => text # ""
  /\ labelRef' = text
  /\ op' = "setLabel"
  /\ UNCHANGED <<seqVars, userRef, isReady, swapHandedness, pageVars, probeVars, sinceLastAppend, camVars, obsVars, detVars, runB, histVars>>

SetUser(text) ==
  /\ text # userRef
  /\ (recordingRef \/ countdown > 0) => text # ""
  /\ userRef' = text
  /\ op' = "setUser"
  /\ UNCHANGED <<seqVars, labelRef, isReady, swapHandedness, pageVars, probeVars, sinceLastAppend, camVars, obsVars, detVars, runB, histVars>>

\* ---------------------------------------------------------------- camera
\* getUserMedia resolved: the probe stream is stopped, the Camera is created,
\* stored in cameraRef and started.  The callback does not look at isOpen.
PermissionGranted ==
  /\ setup = "permission"
  /\ setup' = "starting"
  /\ cameraRef' = TRUE
  /\ camera' = "starting"
  /\ op' = "permissionGranted"
  /\ UNCHANGED <<seqVars, idVars, isReady, swapHandedness, pageVars, probeVars, sinceLastAppend, isOpen, obsVars, detVars,
                 runB, histVars>>

\* getUserMedia rejected: setIsReady(false)
PermissionDenied ==
  /\ setup = "permission"
  /\ setup' = "failed"
  /\ isReady' = FALSE
  /\ op' = "permissionDenied"
  /\ UNCHANGED <<seqVars, idVars, swapHandedness, pageVars, probeVars, sinceLastAppend, isOpen, cameraRef, camera, obsVars,
                 detVars, runB, histVars>>

\* camera.start() rejected: setIsReady(false)
CameraStartFailed ==
  /\ setup = "starting"
  /\ setup' = "failed"
  /\ camera' = "stopped"
  /\ isReady' = FALSE
  /\ op' = "cameraStartFailed"
  /\ UNCHANGED <<seqVars, idVars, swapHandedness, pageVars, probeVars, sinceLastAppend, isOpen, cameraRef, obsVars,
                 detVars, runB, histVars>>

\* cameraRef.current.stop(); cameraRef.current = null (handleClose and the
\* cleanup of the setup effect)
StopCamera ==
  /\ camera' = IF cameraRef THEN "stopped" ELSE camera
  /\ cameraRef' = FALSE

NeedsConfirmNever(rec, partialFrames) == FALSE

\* recordingRef.current || (partialFrames > 0 && partialFrames < targetFramesRef.current)
NeedsConfirm(rec, partialFrames) ==
  rec \/ (partialFrames > 0 /\ partialFrames < FIXED_TARGET_FRAMES)

\* handleClose, and the unmount that onClose() brings: the countdown effect's
\* timers are cleared, the setup effect's cleanup stops the camera in
\* cameraRef.  window.confirm is answered by ok.
HandleClose(ok) ==
  /\ isOpen
  /\ IF NeedsConfirm(recordingRef, Len(framesRef)) /\ ~ok
     THEN /\ op' = "handleCloseCancelled"
          /\ UNCHANGED <<seqVars, idVars, isReady, swapHandedness, pageVars, probeVars, sinceLastAppend, camVars, obsVars,
                         detVars, runB, histVars>>
     ELSE /\ op' = IF NeedsConfirm(recordingRef, Len(framesRef))
                   THEN "handleCloseConfirmed" ELSE "handleClose"
          /\ recordingRef' = FALSE
          /\ mode' = "IDLE"
          /\ framesRef' = <<>>
          /\ runB' = [runB EXCEPT !.frames = <<>>]
          /\ countdown' = 0
          /\ isReady' = FALSE
          /\ completedCapturesRef' = 0
          /\ tickTimer' = NoTimer
          /\ backupTimer' = NoTimer
          /\ StopCamera
          /\ isOpen' = FALSE
          /\ sinceLastAppend' = NoFrame
          /\ UNCHANGED <<pausedRef, sinceLastFrame, timers, idVars, swapHandedness, pageVars, probeVars,
                         setup, obsVars, detVars, histVars>>

\* camera.start() resolved
CameraStarted ==
  /\ isOpen /\ setup = "starting" /\ camera = "starting"
  /\ ~isReady
  /\ isReady' = TRUE
  /\ setup' = "done"
  /\ camera' = "running"
  /\ op' = "cameraStarted"
  /\ UNCHANGED <<seqVars, idVars, swapHandedness, pageVars, probeVars, sinceLastAppend, isOpen, cameraRef, obsVars, detVars,
                 runB, histVars>>


\* ---------------------------------------------------------------- detection callback
\* hands.onResults.  dets is the detector's result, detsB the result the second
\* run receives in the same callback.
OnResults(dets, detsB) ==
  LET c == Classify(dets, swapHandedness)
      cB == Classify(detsB, swapHandedness)
      leftHistory == PushPresence(leftPresenceHistoryRef, DetectedNow(c.left))
      rightHistory == PushPresence(rightPresenceHistoryRef, DetectedNow(c.right))
      leftSmoothedVisible == SmoothedVisible(leftHistory)
      rightSmoothedVisible == SmoothedVisible(rightHistory)
      d == DataStep(c, leftSmoothedVisible, rightSmoothedVisible, renderPrevRef,
                    lastRenderedLeftRef, lastRenderedRightRef, filtersRef)
      dB == DataStep(cB, leftSmoothedVisible, rightSmoothedVisible, runB.renderPrev,
                     runB.lastLeft, runB.lastRight, runB.filters)
      buffer == IF d.accept THEN Append(framesRef, d.frame) ELSE framesRef
      bufferB == IF dB.accept THEN Append(runB.frames, dB.frame) ELSE runB.frames
      newCompleted == completedCapturesRef + 1
      renderedB == [runB EXCEPT !.renderPrev = dB.prev, !.lastLeft = dB.lastLeft,
                                !.lastRight = dB.lastRight]
  IN
  /\ leftPresenceHistoryRef' = leftHistory
  /\ rightPresenceHistoryRef' = rightHistory
  /\ renderPrevRef' = d.prev
  /\ lastRenderedLeftRef' = d.lastLeft
  /\ lastRenderedRightRef' = d.lastRight
  /\ visibilityStateRef' = [left |-> leftSmoothedVisible, right |-> rightSmoothedVisible]
  /\ lastResults' = dets
  /\ lastClassified' = c
  /\ UNCHANGED <<idVars, isReady, swapHandedness, pageVars, probeVars, camVars, pausedRef, countdown, batchLabel, batchUser>>
  /\ IF ~Capturing(recordingRef, pausedRef)
     THEN /\ op' = "onResultsPreview"
          /\ runB' = renderedB
          /\ UNCHANGED <<mode, recordingRef, framesRef, completedCapturesRef,
                         sinceLastFrame, timers, tickTimer, backupTimer,
                         filtersRef, lastCapture, lastSample, samplesInBatch>>
     ELSE IF ~GateOpen(sinceLastFrame, FRAME_INTERVAL_MS)
     THEN /\ op' = "onResultsGated"
          /\ runB' = renderedB
          /\ UNCHANGED <<mode, recordingRef, framesRef, completedCapturesRef,
                         sinceLastFrame, timers, tickTimer, backupTimer,
                         filtersRef, lastCapture, lastSample, samplesInBatch>>
     ELSE
       /\ filtersRef' = IF d.accept THEN d.filters ELSE filtersRef
       /\ lastCapture' = [left |-> Len(d.captureLeft.lms), right |-> Len(d.captureRight.lms)]
       /\ IF ~TargetReached(buffer)
          THEN /\ op' = IF d.accept THEN "onResultsStored" ELSE "onResultsSkipped"
               /\ framesRef' = buffer
               /\ runB' = [renderedB EXCEPT !.frames = bufferB,
                             !.filters = IF dB.accept THEN dB.filters ELSE @]
               /\ sinceLastFrame' = 0
               /\ UNCHANGED <<mode, recordingRef, completedCapturesRef, timers,
                              tickTimer, backupTimer, lastSample, samplesInBatch>>
          ELSE /\ op' = "onResultsCompleted"
               /\ recordingRef' = FALSE
               /\ mode' = "IDLE"
               /\ Emit(buffer)
               /\ completedCapturesRef' = newCompleted
               /\ Effects(countdown, FALSE)
               /\ IF NextCaptureFollows(newCompleted)
                  THEN /\ framesRef' = <<>>
                       /\ runB' = [renderedB EXCEPT !.frames = <<>>,
                                     !.filters = IF dB.accept THEN dB.filters ELSE @]
                       /\ sinceLastFrame' = FRAME_INTERVAL_MS
                       /\ timers' = timers \cup {Timer("settle", SETTLE_DELAY)}
                  ELSE /\ framesRef' = buffer
                       /\ runB' = [renderedB EXCEPT !.frames = bufferB,
                                     !.filters = IF dB.accept THEN dB.filters ELSE @]
                       /\ sinceLastFrame' = 0
                       /\ timers' = timers \cup {Timer("final", FINAL_RESET_DELAY)}
  /\ sinceLastAppend' = AppendClock(framesRef')

\* ---------------------------------------------------------------- timers
\* the 3000 ms callback of handleQuickCapture and of the next-capture chain
RecordTimer ==
  /\ Timer("record", 0) \in timers
  /\ timers' = timers \ {Timer("record", 0)}
  /\ recordingRef' = TRUE
  /\ mode' = "RECORD"
  /\ sinceLastFrame' = 0
  /\ Effects(countdown, TRUE)
  /\ op' = "recordTimer"
  /\ UNCHANGED <<pausedRef, framesRef, countdown, completedCapturesRef,
                 idVars, isReady, swapHandedness, pageVars, probeVars, sinceLastAppend, camVars, obsVars, detVars, runB, histVars>>

\* the 3000 ms callback of the Enter-key start
EnterRecordTimer ==
  /\ Timer("recordEnter", 0) \in timers
  /\ timers' = timers \ {Timer("recordEnter", 0)}
  /\ recordingRef' = TRUE
  /\ mode' = "RECORD"
  /\ Effects(countdown, TRUE)
  /\ op' = "enterRecordTimer"
  /\ UNCHANGED <<pausedRef, framesRef, countdown, completedCapturesRef, sinceLastFrame,
                 idVars, isReady, swapHandedness, pageVars, probeVars, sinceLastAppend, camVars, obsVars, detVars, runB, histVars>>

\* the 2000 ms callback between two captures of a batch
SettleTimer ==
  /\ Timer("settle", 0) \in timers
  /\ timers' = (timers \ {Timer("settle", 0)}) \cup {Timer("record", RECORD_DELAY)}
  /\ countdown' = COUNTDOWN_START
  /\ mode' = "COUNTDOWN"
  /\ Effects(COUNTDOWN_START, recordingRef)
  /\ op' = "settleTimer"
  /\ UNCHANGED <<recordingRef, pausedRef, framesRef, completedCapturesRef, sinceLastFrame,
                 idVars, isReady, swapHandedness, pageVars, probeVars, sinceLastAppend, camVars, obsVars, detVars, runB, histVars>>

FinalTimerKeepsLabel ==
  /\ Timer("final", 0) \in timers
  /\ timers' = timers \ {Timer("final", 0)}
  /\ framesRef' = <<>>
  /\ runB' = [runB EXCEPT !.frames = <<>>]
  /\ sinceLastFrame' = FRAME_INTERVAL_MS
  /\ completedCapturesRef' = 0
  /\ recordingRef' = FALSE
  /\ mode' = "IDLE"
  /\ labelRef' = labelRef
  /\ Effects(countdown, FALSE)
  /\ op' = "finalTimer"
  /\ sinceLastAppend' = NoFrame
  /\ UNCHANGED <<pausedRef, countdown, userRef, isReady, swapHandedness, pageVars, probeVars, camVars, obsVars, detVars, histVars>>

\* the 1000 ms callback after the last capture of a batch
FinalTimer ==
  /\ Timer("final", 0) \in timers
  /\ timers' = timers \ {Timer("final", 0)}
  /\ framesRef' = <<>>
  /\ runB' = [runB EXCEPT !.frames = <<>>]
  /\ sinceLastFrame' = FRAME_INTERVAL_MS
  /\ completedCapturesRef' = 0
  /\ recordingRef' = FALSE
  /\ mode' = "IDLE"
  /\ labelRef' = ""
  /\ Effects(countdown, FALSE)
  /\ op' = "finalTimer"
  /\ sinceLastAppend' = NoFrame
  /\ UNCHANGED <<pausedRef, countdown, userRef, isReady, swapHandedness, pageVars, probeVars, camVars, obsVars, detVars, histVars>>

\* the countdown effect's timer: setCountdown(countdown - 1)
CountdownTick ==
  /\ tickTimer = 0
  /\ countdown' = countdown - 1
  /\ tickTimer' = IF countdown - 1 > 0 THEN COUNTDOWN_TICK ELSE NoTimer
  /\ backupTimer' = IF countdown - 1 = 0 /\ recordingRef THEN BACKUP_TIMEOUT ELSE NoTimer
  /\ op' = "countdownTick"
  /\ UNCHANGED <<mode, recordingRef, pausedRef, framesRef, completedCapturesRef,
                 sinceLastFrame, timers, idVars, isReady, swapHandedness, pageVars, probeVars, sinceLastAppend, camVars, obsVars, detVars,
                 runB, histVars>>

\* the countdown effect's backup timer: handleStop()
BackupTimer ==
  /\ backupTimer = 0
  /\ HandleStop("backupTimer")

\* the clock advances by one unit; no timer is overdue
Tick ==
  /\ \A t \in timers : t.rem > 0
  /\ tickTimer # 0
  /\ backupTimer # 0
  /\ timers' = {Timer(t.kind, t.rem - 1) : t \in timers}
  /\ tickTimer' = IF tickTimer = NoTimer THEN NoTimer ELSE tickTimer - 1
  /\ backupTimer' = IF backupTimer = NoTimer THEN NoTimer ELSE backupTimer - 1
  /\ sinceLastFrame' = Min(sinceLastFrame + 1, FRAME_INTERVAL_MS)
  /\ sinceLastAppend' = IF sinceLastAppend = NoFrame THEN NoFrame
                        ELSE Min(sinceLastAppend + 1, FRAME_INTERVAL_MS + 1)
  /\ op' = "tick"
  /\ UNCHANGED <<mode, recordingRef, pausedRef, framesRef, countdown,
                 completedCapturesRef, idVars, isReady, swapHandedness, pageVars, probeVars, camVars, obsVars, detVars,
                 runB, histVars>>

\* ---------------------------------------------------------------- probes
\* one detection frame of the scenario, holding one Right hand: the capture
\* part of hands.onResults with the scenario's interval and target
ScenarioFrame ==
  /\ scenario.fed < Scenario.frames
  /\ \E step \in IF scenario.fed = 0 THEN ScenarioPhases ELSE {Scenario.spacing} :
       LET currentTime == scenario.now + step
           captureRight == [def |-> TRUE, lms |-> <<Lm(100, NoVis)>>]
           arrived == [scenario EXCEPT !.fed = @ + 1, !.now = currentTime]
       IN IF ~scenario.recording
             \/ ~GateOpen(currentTime - scenario.lastFrameTime, Scenario.interval)
          THEN scenario' = arrived
          ELSE LET buffered == IF Accepts(Undefined, captureRight)
                               THEN scenario.buffered + 1 ELSE scenario.buffered
                   stored == [arrived EXCEPT !.lastFrameTime = currentTime,
                                             !.buffered = buffered]
               IN IF ReachedTarget(buffered, Scenario.target)
                  THEN scenario' = [stored EXCEPT !.recording = FALSE, !.emitted = @ + 1,
                                                  !.sampleLen = buffered]
                  ELSE scenario' = stored
  /\ op' = "scenarioFrame"
  /\ UNCHANGED <<seqVars, idVars, isReady, swapHandedness, pageVars, sinceLastAppend, camVars, obsVars,
                 detVars, runB, histVars, qualityFrames, quality, mirror, collector>>

\* framesets handed to computeQuality: each side empty or of one landmark
QualityFrameSet == {[left_hand |-> l, right_hand |-> r] :
                      l \in {<<>>, <<Lm(100, NoVis)>>}, r \in {<<>>, <<Lm(100, 60)>>}}

\* computeQuality applied to a frameset one frame longer
QualityOf(f) ==
  /\ Len(qualityFrames) < MaxQualityFrames
  /\ qualityFrames' = Append(qualityFrames, f)
  /\ quality' = computeQuality(qualityFrames')
  /\ op' = "computeQuality"
  /\ UNCHANGED <<seqVars, idVars, isReady, swapHandedness, pageVars, sinceLastAppend, camVars, obsVars,
                 detVars, runB, histVars, scenario, mirror, collector>>

\* ---------------------------------------------------------------- frames state and framesRef
\* the capture block of a detection callback that passes the gate with a frame
\* that is kept: push onto framesRef.current, setFrames of a copy, and on the
\* target the Sample, setFrames([]) and framesRef.current = [].  The frame
\* carries its arrival number.
MirrorCallback ==
  /\ mirror.recording
  /\ Len(mirror.pushed) < MaxMirrorPushes
  /\ LET frame == Len(mirror.pushed) + 1
         buffer == Append(mirror.framesRef, frame)
     IN IF ReachedTarget(Len(buffer), MirrorTarget)
        THEN mirror' = [mirror EXCEPT !.recording = FALSE, !.sample = buffer,
                                      !.framesRef = <<>>, !.update = <<>>,
                                      !.pushed = Append(@, frame)]
        ELSE mirror' = [mirror EXCEPT !.framesRef = buffer, !.update = buffer,
                                      !.pushed = Append(@, frame)]
  /\ op' = "mirrorCallback"
  /\ UNCHANGED <<seqVars, idVars, isReady, swapHandedness, pageVars, sinceLastAppend, camVars, obsVars,
                 detVars, runB, histVars, scenario, qualityFrames, quality, collector>>

\* React renders the latest setFrames value; an effect still waiting from the
\* render before is run first, and the effect of this render is left waiting
MirrorRender ==
  /\ mirror.update # NoArray
  /\ mirror' = [mirror EXCEPT !.framesRef = IF mirror.effect # NoArray THEN mirror.effect ELSE @,
                              !.frames = mirror.update,
                              !.effect = mirror.update,
                              !.update = NoArray]
  /\ op' = "mirrorRender"
  /\ UNCHANGED <<seqVars, idVars, isReady, swapHandedness, pageVars, sinceLastAppend, camVars, obsVars,
                 detVars, runB, histVars, scenario, qualityFrames, quality, collector>>

\* useEffect(() => { framesRef.current = frames }, [frames])
MirrorEffect ==
  /\ mirror.effect # NoArray
  /\ mirror' = [mirror EXCEPT !.framesRef = mirror.effect, !.effect = NoArray]
  /\ op' = "mirrorEffect"
  /\ UNCHANGED <<seqVars, idVars, isReady, swapHandedness, pageVars, sinceLastAppend, camVars, obsVars,
                 detVars, runB, histVars, scenario, qualityFrames, quality, collector>>

\* ---------------------------------------------------------------- CaptureCamera
\* handleFullscreenCapture up to uploadCamera(payload): the .then callback
\* keeps the sampleCounter of the render the handler belongs to
HandleFullscreenCapture ==
  /\ collector.captures < MaxCaptures
  /\ collector' = [collector EXCEPT
                     !.captures = @ + 1,
                     !.uploads = @ \cup {[capture |-> collector.captures + 1,
                                          id |-> collector.sampleCounter]}]
  /\ op' = "handleFullscreenCapture"
  /\ UNCHANGED <<seqVars, idVars, isReady, swapHandedness, pageVars, sinceLastAppend, camVars, obsVars,
                 detVars, runB, histVars, scenario, qualityFrames, quality, mirror>>

\* uploadCamera settles: result.ok, result not ok, or a rejection
UploadCameraSettles(u, outcome) ==
  /\ u \in collector.uploads
  /\ IF outcome = "ok"
     THEN /\ collector' = [collector EXCEPT
                             !.uploads = @ \ {u},
                             !.samples = Append(@, [id |-> u.id, capture |-> u.capture]),
                             !.sampleCounter = @ + 1]
          /\ op' = "uploadCameraOk"
     ELSE /\ collector' = [collector EXCEPT !.uploads = @ \ {u}, !.errors = @ + 1]
          /\ op' = "uploadCameraFailed"
  /\ UNCHANGED <<seqVars, idVars, isReady, swapHandedness, pageVars, sinceLastAppend, camVars, obsVars,
                 detVars, runB, histVars, scenario, qualityFrames, quality, mirror>>

\* ---------------------------------------------------------------- batch uploader
captureVars == <<seqVars, idVars, isReady, swapHandedness, probeVars, sinceLastAppend, camVars, obsVars, detVars,
                 runB, histVars>>

\* what uploadVideo does with one file: resolves ok, resolves not ok with or
\* without an error text, or rejects
Outcomes == {"ok", "error", "errorNoText", "throw"}

\* the updateFile call of uploadSingle for an outcome
Recorded(item, outcome) ==
  CASE outcome = "ok" -> [item EXCEPT !.status = "done", !.message = "Thanh cong",
                                        !.uploadedId = BackendId]
    [] outcome = "error" -> [item EXCEPT !.status = "error", !.message = "result.error"]
    [] outcome = "errorNoText" -> [item EXCEPT !.status = "error", !.message = "Upload that bai"]
    [] OTHER -> [item EXCEPT !.status = "error", !.message = "err.message"]

IsPendingOrError(item) == item.status \in {"pending", "error"}

\* f => f.status === 'pending'
IsPending(item) == item.status = "pending"

\* files.filter(f => f.status === 'pending'), as indices into files
RECURSIVE PendingFrom(_, _)
PendingFrom(fs, i) ==
  IF i > Len(fs) THEN <<>>
  ELSE IF IsPending(fs[i]) THEN <<i>> \o PendingFrom(fs, i + 1)
       ELSE PendingFrom(fs, i + 1)

PendingFiles(fs) == PendingFrom(fs, 1)

\* String.prototype.trim on the texts of the model
Trim(text) == IF text = " " THEN "" ELSE text

\* validateFile: the fields in error
validateFile(item) ==
  (IF Trim(item.label) = "" THEN {"label"} ELSE {})
  \cup (IF Trim(item.user) = "" THEN {"user"} ELSE {})
  \cup (IF item.size > MAX_FILE_MB THEN {"file"} ELSE {})

AllValidPendingOnly(fs) == \A i \in DOMAIN fs : fs[i].status = "pending" => validateFile(fs[i]) = {}

\* validateAllFiles().length === 0
AllValid(fs) == \A i \in DOMAIN fs : validateFile(fs[i]) = {}

\* stats.canUpload
CanUpload(fs) == AllValid(fs) /\ Len(PendingFiles(fs)) > 0

PoolSizeOnePerFile(c, n) == n

\* Math.min(concurrency, pendingFiles.length)
PoolSize(c, n) == Min(c, n)

WorkerContinuesOffByOne(idx, n) == idx + 1 < n

\* while (idx < pendingFiles.length)
WorkerContinues(idx, n) == idx < n

\* uploadSingle up to its await, for an item that passes validateFile
BeginUpload(fs, i) ==
  [fs EXCEPT ![i].status = "uploading", ![i].poolSubmits = @ + 1]

\* addFiles: one more pending file, with or without label and user
AddFile(shape) ==
  /\ Len(files) < MaxFiles
  /\ files' = Append(files, FileItem(shape))
  /\ op' = "addFiles"
  /\ UNCHANGED <<captureVars, concurrency, uploadingAll, pool, retries>>

\* the label input of a row (disabled while uploading or done)
EditFile(i, text) ==
  /\ i \in DOMAIN files
  /\ files[i].status \notin {"uploading", "done"}
  /\ text # files[i].label
  /\ files' = [files EXCEPT ![i].label = text]
  /\ op' = "editFile"
  /\ UNCHANGED <<captureVars, concurrency, uploadingAll, pool, retries>>

\* the user input of a row (disabled while uploading or done)
EditUser(i, text) ==
  /\ i \in DOMAIN files
  /\ files[i].status \notin {"uploading", "done"}
  /\ text # files[i].user
  /\ files' = [files EXCEPT ![i].user = text]
  /\ op' = "editUser"
  /\ UNCHANGED <<captureVars, concurrency, uploadingAll, pool, retries>>

\* the pool size slider
SetConcurrency(c) ==
  /\ c # concurrency
  /\ concurrency' = c
  /\ op' = "setConcurrency"
  /\ UNCHANGED <<captureVars, files, uploadingAll, pool, retries>>

\* uploadAll up to the first await of each worker; a call that its guards
\* turn away ends in onError
uploadAll ==
  /\ LET pendingFiles == PendingFiles(files)
         k == PoolSize(concurrency, Len(pendingFiles))
         taken == Min(k, Len(pendingFiles))
         started == {pendingFiles[w] : w \in 1..taken}
     IN IF Len(pendingFiles) = 0 \/ ~AllValid(files)
        THEN /\ op' = "uploadAllOnError"
             /\ UNCHANGED <<files, uploadingAll, pool>>
        ELSE /\ op' = "uploadAll"
             /\ uploadingAll' = TRUE
             /\ files' = [i \in DOMAIN files |->
                            IF i \in started THEN BeginUpload(files, i)[i] ELSE files[i]]
             /\ pool' = [items |-> pendingFiles, idx |-> taken, concurrency |-> concurrency,
                         snapshotIds |-> [n \in DOMAIN pendingFiles |->
                                            files[pendingFiles[n]].uploadedId],
                         results |-> <<>>, onSuccess |-> <<>>,
                         workers |-> [w \in 1..k |-> IF w <= taken THEN pendingFiles[w] ELSE 0]]
  /\ UNCHANGED <<captureVars, concurrency, retries>>

\* the upload button, disabled unless stats.canUpload and not uploadingAll
UploadAll ==
  /\ ~uploadingAll /\ CanUpload(files)
  /\ uploadAll

\* the upload a worker awaits settles: uploadSingle records the outcome, the
\* worker takes the next item or returns; when the last worker has returned
\* Promise.all resolves and uploadAll ends with setUploadingAll(false)
WorkerSettles(w, outcome) ==
  /\ uploadingAll
  /\ w \in DOMAIN pool.workers
  /\ pool.workers[w] # 0
  /\ LET i == pool.workers[w]
         recorded == [files EXCEPT ![i] = Recorded(files[i], outcome)]
         more == WorkerContinues(pool.idx, Len(pool.items))
         next == pool.items[pool.idx + 1]
         workers == [pool.workers EXCEPT ![w] = IF more THEN next ELSE 0]
         item == CHOOSE n \in DOMAIN pool.items : pool.items[n] = i
         success == outcome = "ok"
         results == IF success /\ pool.snapshotIds[item] # NoId
                    THEN Append(pool.results,
                                [fileId |-> i, uploadedId |-> pool.snapshotIds[item]])
                    ELSE pool.results
     IN /\ files' = IF more THEN BeginUpload(recorded, next) ELSE recorded
        /\ IF \A v \in DOMAIN workers : workers[v] = 0
           THEN uploadingAll' = FALSE /\ pool' = [NoPool EXCEPT !.onSuccess = results]
           ELSE /\ uploadingAll' = TRUE
                /\ pool' = [pool EXCEPT !.idx = IF more THEN @ + 1 ELSE @,
                                        !.workers = workers, !.results = results]
  /\ op' = "workerSettles"
  /\ UNCHANGED <<captureVars, concurrency, retries>>

RetryShownUnlessUploading(item) == item.status # "uploading"

\* item.status === 'error' && <button onClick={() => uploadSingle(item)}>
RetryShown(item) == item.status = "error"

\* the retry button of a row in error: uploadSingle(item) outside the pool
Retry(i) ==
  /\ i \in DOMAIN files
  /\ RetryShown(files[i])
  /\ IF validateFile(files[i]) # {}
     THEN /\ files' = [files EXCEPT ![i].status = "error", ![i].message = "validation"]
          /\ UNCHANGED retries
     ELSE /\ files' = [files EXCEPT ![i].status = "uploading"]
          /\ retries' = retries \cup {i}
  /\ op' = "retry"
  /\ UNCHANGED <<captureVars, concurrency, uploadingAll, pool>>

RetrySettles(i, outcome) ==
  /\ i \in retries
  /\ files' = [files EXCEPT ![i] = Recorded(files[i], outcome)]
  /\ retries' = retries \ {i}
  /\ op' = "retrySettles"
  /\ UNCHANGED <<captureVars, concurrency, uploadingAll, pool>>

SomeWorkerSettles == \E w \in 1..MaxFiles, outcome \in Outcomes : WorkerSettles(w, outcome)

SomeRetrySettles == \E i \in 1..MaxFiles, outcome \in Outcomes : RetrySettles(i, outcome)

\* ---------------------------------------------------------------- detector results
Hand(lbl, x, v) == <<[label |-> lbl, lms |-> <<Lm(x, v)>>]>>

\* results of the sequencer specifications: one Left hand in every callback
SeqResults == {Hand("Left", 100, NoVis)}

\* results of the data-path specification: no hand, a hand labelled Left of
\* low visibility, and a hand labelled Left with an empty landmark array
\* (SWAP_HANDEDNESS on sends them to the right slot)
DataResults == {<<>>, Hand("Left", 100, 40), <<[label |-> "Left", lms |-> <<>>]>>}

\* results of the two-run specification
TwoRunResults == {<<>>, Hand("Left", 100, NoVis)}

\* results of the classifier specification: up to two detections, labelled
\* Left, Right or not at all, told apart by their landmark
ClassifierHands ==
  {[label |-> l, lms |-> <<Lm(x, NoVis)>>] : l \in {"Left", "Right"}, x \in {0, 100}}
    \cup {[label |-> "", lms |-> <<Lm(100, NoVis)>>]}

ClassifierResults ==
  {<<>>} \cup {<<h>> : h \in ClassifierHands}
         \cup {<<h1, h2>> : h1 \in ClassifierHands, h2 \in ClassifierHands}

\* results of the order specification: one Left hand at either of two places
OrderResults == {Hand("Left", 0, NoVis), Hand("Left", 100, NoVis)}

\* results of the presence specification: no hand, one of either side, both
PresenceResults ==
  {<<>>, Hand("Left", 100, NoVis), Hand("Right", 100, NoVis),
   Hand("Left", 100, NoVis) \o Hand("Right", 100, NoVis)}

Detect(results) == \E dets \in results : isReady /\ OnResults(dets, dets)

\* before the first start, the second run previews a hand at another place
PreviewDiverged ==
  /\ isReady /\ batchLabel = "" /\ ~recordingRef /\ timers = {}
  /\ OnResults(Hand("Left", 100, NoVis), Hand("Left", 0, NoVis))

TimerFires ==
  \/ RecordTimer
  \/ EnterRecordTimer
  \/ SettleTimer
  \/ FinalTimer
  \/ CountdownTick
  \/ BackupTimer

\* ---------------------------------------------------------------- specifications
\* the sequencer under every key and button, the identity fields left alone
Next ==
  \/ HandleQuickCapture
  \/ EnterKey
  \/ SpaceKey
  \/ AbortKey
  \/ PauseButton
  \/ ResumeButton
  \/ RestartButton
  \/ StopButton
  \/ FinishButton
  \/ CameraStarted
  \/ Detect(SeqResults)
  \/ RecordTimer
  \/ EnterRecordTimer
  \/ SettleTimer
  \/ FinalTimer
  \/ CountdownTick
  \/ BackupTimer
  \/ Tick

\* the camera permission already granted
InitSeq == Init /\ ~swapHandedness /\ setup = "starting"

Spec == InitSeq /\ [][Next]_vars

InitNamed == InitSeq /\ labelRef = "a" /\ userRef = "u"

InitData == Init /\ labelRef = "a" /\ userRef = "u" /\ setup = "starting"

\* the label edited around a batch started with the Start button
NextIdentity ==
  \/ HandleQuickCapture
  \/ \E text \in {"a", "b"} : SetLabel(text)
  \/ CameraStarted
  \/ Detect(SeqResults)
  \/ RecordTimer
  \/ SettleTimer
  \/ FinalTimer
  \/ CountdownTick
  \/ BackupTimer
  \/ Tick

SpecIdentity == InitNamed /\ [][NextIdentity]_vars

\* one batch: a single start, then only detector results and timers
StartOnce == batchLabel = "" /\ (HandleQuickCapture \/ EnterKey)

StoreFrame == Detect(SeqResults) /\ framesRef' # framesRef

NextBatch ==
  \/ StartOnce
  \/ CameraStarted
  \/ Detect(SeqResults)
  \/ RecordTimer
  \/ EnterRecordTimer
  \/ SettleTimer
  \/ FinalTimer
  \/ CountdownTick
  \/ BackupTimer
  \/ Tick

SpecBatch ==
  /\ InitNamed
  /\ [][NextBatch]_vars
  /\ WF_vars(CameraStarted)
  /\ WF_vars(StoreFrame)
  /\ WF_vars(TimerFires)
  /\ WF_vars(Tick)

\* one batch started with the Start button
StartButtonOnce == batchLabel = "" /\ HandleQuickCapture

\* the data path of the detection callback under varied detector results
NextData ==
  \/ StartButtonOnce
  \/ CameraStarted
  \/ Detect(DataResults)
  \/ RecordTimer
  \/ SettleTimer
  \/ FinalTimer
  \/ CountdownTick
  \/ BackupTimer
  \/ Tick

SpecData == InitData /\ [][NextData]_vars

\* two runs whose previews before the batch differed, fed the same results
\* from the start of the batch on
NextTwoRuns ==
  \/ StartButtonOnce
  \/ CameraStarted
  \/ batchLabel # "" /\ Detect(TwoRunResults)
  \/ PreviewDiverged
  \/ RecordTimer
  \/ SettleTimer
  \/ FinalTimer
  \/ CountdownTick
  \/ BackupTimer
  \/ Tick

SpecTwoRuns == InitNamed /\ [][NextTwoRuns]_vars

\* the first callbacks after the camera started, under every classifier result
NextClassifier ==
  \/ CameraStarted
  \/ Len(leftPresenceHistoryRef) < MaxCallbacks /\ Detect(ClassifierResults)

SpecClassifier == InitData /\ [][NextClassifier]_vars

\* the presence voter under every sequence of hands seen and lost
NextPresence ==
  \/ CameraStarted
  \/ Detect(PresenceResults)

SpecPresence == InitData /\ [][NextPresence]_vars

\* the camera setup against closing the modal; a closed modal takes no key,
\* and the timers and callbacks of its unmounted component are left out
InitCamera == Init /\ labelRef = "a" /\ userRef = "u" /\ ~swapHandedness /\ setup = "permission"

NextCamera ==
  \/ PermissionGranted
  \/ PermissionDenied
  \/ CameraStarted
  \/ CameraStartFailed
  \/ \E ok \in BOOLEAN : HandleClose(ok)
  \/ isOpen /\ EnterKey
  \/ isOpen /\ Detect(SeqResults)
  \/ isOpen /\ TimerFires
  \/ isOpen /\ Tick

SpecCamera == InitCamera /\ [][NextCamera]_vars

\* the batch uploader; every upload in flight settles
NextUpload ==
  \/ \E shape \in LabelShapes : AddFile(shape)
  \/ \E i \in 1..MaxFiles, text \in {"", "a"} : EditFile(i, text)
  \/ \E c \in 1..MaxConcurrency : SetConcurrency(c)
  \/ UploadAll
  \/ SomeWorkerSettles
  \/ \E i \in 1..MaxFiles : Retry(i)
  \/ SomeRetrySettles

SpecUpload ==
  /\ InitNamed
  /\ [][NextUpload]_vars
  /\ WF_vars(SomeWorkerSettles)
  /\ WF_vars(SomeRetrySettles)

\* one capture with renders and effects at any time between its callbacks
NextMirror ==
  \/ MirrorCallback
  \/ MirrorRender
  \/ MirrorEffect

SpecMirror == InitNamed /\ [][NextMirror]_vars

\* CaptureCamera receiving the Samples of the modal, uploads settling in any
\* order (the sample list with its delete button is switched off by
\* SHOW_ADVANCED)
NextCollector ==
  \/ HandleFullscreenCapture
  \/ \E capture \in 1..MaxCaptures, id \in 1..MaxCaptures, outcome \in {"ok", "error", "throw"} :
       UploadCameraSettles([capture |-> capture, id |-> id], outcome)

SpecCollector == InitNamed /\ [][NextCollector]_vars

\* the batch uploader with uploadAll called whatever the list holds, over
\* files failing validation for each reason
NextUploadGuards ==
  \/ \E shape \in AllShapes : AddFile(shape)
  \/ \E i \in 1..MaxFiles, text \in {"", "a"} : EditFile(i, text)
  \/ \E i \in 1..MaxFiles, text \in {"", "u"} : EditUser(i, text)
  \/ ~uploadingAll /\ uploadAll
  \/ SomeWorkerSettles
  \/ \E i \in 1..MaxFiles : Retry(i)
  \/ SomeRetrySettles

SpecUploadGuards == InitNamed /\ [][NextUploadGuards]_vars

\* the Enter key pressed while nothing records and no capture is complete,
\* and callbacks without a hand once the buffer holds a capture's frames
NextStale ==
  \/ ~recordingRef /\ completedCapturesRef = 0 /\ EnterKey
  \/ CameraStarted
  \/ Detect(SeqResults)
  \/ Len(framesRef) >= FIXED_TARGET_FRAMES /\ Detect({<<>>})
  \/ TimerFires
  \/ Tick

SpecStale == InitNamed /\ [][NextStale]_vars

\* one batch whose callbacks arrive while recording with the gate open, the
\* hand at either of two places
NextOrder ==
  \/ StartButtonOnce
  \/ CameraStarted
  \/ recordingRef /\ sinceLastFrame >= FRAME_INTERVAL_MS /\ Detect(OrderResults)
  \/ RecordTimer
  \/ SettleTimer
  \/ FinalTimer
  \/ CountdownTick
  \/ BackupTimer
  \/ Tick

SpecOrder == InitNamed /\ [][NextOrder]_vars

\* the sampling gate under the scenario's frame train
SpecScenario == InitNamed /\ [][ScenarioFrame]_vars

\* computeQuality over every frameset up to MaxQualityFrames frames
NextQuality == \E f \in QualityFrameSet : QualityOf(f)

SpecQuality == InitNamed /\ [][NextQuality]_vars

\* ---------------------------------------------------------------- claims
ManualStopOps == {"handleStop", "finish", "backupTimer", "handleStopAlert",
                  "EnterAlert", "EnterStop"}

GatePassedOps == {"onResultsStored", "onResultsSkipped", "onResultsCompleted"}

\* C1: every Sample handed to onSampleCapture holds exactly
\* FIXED_TARGET_FRAMES frames.
C1_SampleHasTargetFrames ==
  lastSample # <<>> => Len(lastSample[1].frames) = FIXED_TARGET_FRAMES

\* C2: a manual stop (handleStop, Enter while recording) with fewer than
\* FIXED_TARGET_FRAMES frames buffered changes neither the recording flag, the
\* paused flag, the mode, the buffer nor the completed count and emits nothing;
\* a Sample is emitted only with at least FIXED_TARGET_FRAMES frames.
C2_ManualStopGuard ==
  [][/\ (op' \in ManualStopOps /\ Len(framesRef) < FIXED_TARGET_FRAMES)
          => UNCHANGED <<recordingRef, pausedRef, mode, framesRef,
                         completedCapturesRef, lastSample, samplesInBatch>>
     /\ lastSample' # lastSample
          => Len(lastSample'[1].frames) >= FIXED_TARGET_FRAMES]_vars

C2_Witness ==
  /\ op = "EnterAlert" /\ recordingRef
  /\ Len(framesRef) > 0 /\ Len(framesRef) < FIXED_TARGET_FRAMES

\* C3: after a start, with accepted frames supplied and no further user
\* action, exactly FIXED_CAPTURE_COUNT Samples are emitted and the sequencer
\* ends, and stays, in IDLE with recording false, an empty buffer and the
\* completed count back at 0.
BatchDone ==
  /\ samplesInBatch = FIXED_CAPTURE_COUNT
  /\ mode = "IDLE" /\ ~recordingRef
  /\ framesRef = <<>> /\ completedCapturesRef = 0

C3_BatchCompletes ==
  /\ [](samplesInBatch <= FIXED_CAPTURE_COUNT)
  /\ (batchLabel # "") ~> [](BatchDone)

C3_Witness == BatchDone /\ batchLabel = "a" /\ timers = {}

\* C4: a start action (Start button, Enter) taken while the label or the
\* performer is empty changes nothing of the sequencer: mode, countdown,
\* buffer, completed count, recording flag, and no timer is scheduled.
C4_StartNeedsIdentity ==
  [][(/\ op' \in {"EnterStart", "EnterIgnored", "handleQuickCapture"}
      /\ (labelRef = "" \/ userRef = ""))
       => UNCHANGED <<mode, countdown, framesRef, completedCapturesRef,
                      recordingRef, timers, tickTimer>>]_vars

C4_Witness ==
  /\ op = "EnterIgnored" /\ (labelRef = "" \/ userRef = "")
  /\ mode = "IDLE" /\ countdown = 0 /\ timers = {}

\* C5: every Sample of a batch carries the label and the performer the batch
\* was started with.
C5_SamplesShareIdentity ==
  (lastSample # <<>> /\ samplesInBatch > 0)
    => (lastSample[1].label = batchLabel /\ lastSample[1].user = batchUser)

\* C6: an abort taken in a non-IDLE state empties the buffer and leaves the
\* sequencer in IDLE with recording false.
C6_AbortReturnsToIdle ==
  [][(op' = "KeyA" /\ mode # "IDLE")
       => (framesRef' = <<>> /\ mode' = "IDLE" /\ ~recordingRef')]_vars

\* C7: when the backup timeout fires with fewer than FIXED_TARGET_FRAMES frames
\* buffered, the recording is stopped and no Sample is emitted.
C7_BackupForcesStop ==
  [][(backupTimer = 0 /\ op' \in {"backupTimer", "handleStopAlert"}
        /\ Len(framesRef) < FIXED_TARGET_FRAMES)
       => (~recordingRef' /\ lastSample' = lastSample)]_vars

\* C8 as stated: restart in PAUSED empties the buffer and moves the sequencer
\* to IDLE with recording false.
C8_RestartGoesIdle ==
  [][op' = "handleRestart"
       => (framesRef' = <<>> /\ mode' = "IDLE" /\ ~recordingRef')]_vars

\* C8 as amended: restart in PAUSED empties the buffer, clears the paused flag
\* and resets the last-sample time; the sequencer keeps recording, the mode,
\* the countdown, the timers and the completed count are untouched and nothing
\* is emitted.
C8_RestartKeepsRecording ==
  [][op' = "handleRestart"
       => /\ framesRef' = <<>> /\ ~pausedRef' /\ recordingRef'
          /\ sinceLastFrame' = 0
          /\ UNCHANGED <<mode, countdown, timers, tickTimer, completedCapturesRef,
                         lastSample>>]_vars

C8_Witness ==
  op = "handleRestart" /\ framesRef = <<>> /\ recordingRef /\ ~pausedRef

\* C9: no stored frame has both hands empty; a callback that passes the gate
\* appends a frame exactly when a capture landmark set is non-empty, and the
\* appended frame has the landmark counts of the capture sets.
FrameHasAHand(f) == Len(f.left_hand) + Len(f.right_hand) > 0

C9_StoredFramesHaveAHand ==
  /\ [](\A i \in 1..Len(framesRef) : FrameHasAHand(framesRef[i]))
  /\ [][op' \in GatePassedOps =>
          LET after == IF op' = "onResultsCompleted"
                       THEN lastSample'[1].frames ELSE framesRef'
              appended == Len(after) = Len(framesRef) + 1
          IN /\ appended \/ after = framesRef
             /\ appended <=> (lastCapture'.left + lastCapture'.right > 0)
             /\ appended =>
                  /\ SubSeq(after, 1, Len(framesRef)) = framesRef
                  /\ Len(after[Len(after)].left_hand) = lastCapture'.left
                  /\ Len(after[Len(after)].right_hand) = lastCapture'.right]_vars

\* a frame stored from the last rendered landmarks while no hand was detected
C9_Witness ==
  /\ op = "onResultsStored" /\ Len(framesRef) > 0
  /\ ~leftPresenceHistoryRef[Len(leftPresenceHistoryRef)]
  /\ ~rightPresenceHistoryRef[Len(rightPresenceHistoryRef)]

\* C10: two runs that receive the same detector results and user actions and
\* differ only in the render-interpolation state hold the same frames in the
\* capture buffer.
C10_RenderStateKeptFromBuffer == runB.frames = framesRef

\* C11: the classifier takes the detections in detector order, swaps Left and
\* Right first when the swap is on, and gives a slot the landmarks of the
\* first detection of that side only: two detections labelled Left leave right
\* undefined and left with the first one's landmarks; Left then Right under
\* the swap gives left the Right detection's landmarks and right the Left one's.
SideOf(rawLabel) ==
  IF swapHandedness
  THEN CASE rawLabel = "Left" -> "Right" [] rawLabel = "Right" -> "Left" [] OTHER -> "none"
  ELSE CASE rawLabel = "Left" -> "Left" [] rawLabel = "Right" -> "Right" [] OTHER -> "none"

FirstOf(side) ==
  LET hits == {i \in 1..Len(lastResults) : SideOf(lastResults[i].label) = side}
  IN IF hits = {} THEN Undefined
     ELSE Arr(lastResults[CHOOSE i \in hits : \A j \in hits : i <= j].lms)

C11_ClassifierFirstOfEachSide ==
  /\ lastClassified.left = FirstOf("Left")
  /\ lastClassified.right = FirstOf("Right")
  /\ (/\ ~swapHandedness /\ Len(lastResults) = 2
      /\ lastResults[1].label = "Left" /\ lastResults[2].label = "Left")
       => (lastClassified.left = Arr(lastResults[1].lms) /\ ~lastClassified.right.def)
  /\ (/\ swapHandedness /\ Len(lastResults) = 2
      /\ lastResults[1].label = "Left" /\ lastResults[2].label = "Right")
       => /\ lastClassified.left = Arr(lastResults[2].lms)
          /\ lastClassified.right = Arr(lastResults[1].lms)

\* two detections labelled Left with different landmarks, swap off
C11_Witness ==
  /\ ~swapHandedness /\ Len(lastResults) = 2
  /\ lastResults[1].label = "Left" /\ lastResults[2].label = "Left"
  /\ lastResults[1].lms # lastResults[2].lms
  /\ lastClassified.left = Arr(lastResults[1].lms)

\* C12: each side's presence history holds at most 5 entries, a callback
\* appends that side's detection and evicts the oldest entry when there were
\* already 5, and the smoothed presence flag of a side is true exactly when
\* its history has more true than false entries (3 of 5 true, not 2 of 5).
Trues(history) == Cardinality({i \in DOMAIN history : history[i]})
Falses(history) == Cardinality({i \in DOMAIN history : ~history[i]})

Pushed(history, detected, after) ==
  LET full == history \o <<detected>>
  IN after = IF Len(history) = PRESENCE_HISTORY_SIZE
             THEN SubSeq(full, 2, PRESENCE_HISTORY_SIZE + 1) ELSE full

SeenNow(slot) == slot.def /\ slot.lms # <<>>

C12_PresenceVote ==
  /\ [](/\ Len(leftPresenceHistoryRef) <= 5
        /\ Len(rightPresenceHistoryRef) <= 5
        /\ visibilityStateRef.left
             <=> Trues(leftPresenceHistoryRef) > Falses(leftPresenceHistoryRef)
        /\ visibilityStateRef.right
             <=> Trues(rightPresenceHistoryRef) > Falses(rightPresenceHistoryRef))
  /\ [][op' \in {"onResultsPreview", "onResultsGated", "onResultsStored",
                 "onResultsSkipped", "onResultsCompleted"}
        => /\ Pushed(leftPresenceHistoryRef, SeenNow(lastClassified'.left),
                     leftPresenceHistoryRef')
           /\ Pushed(rightPresenceHistoryRef, SeenNow(lastClassified'.right),
                     rightPresenceHistoryRef')]_vars

\* full histories that differ: left 3 of 5 true and flagged, right 2 of 5 true
\* and not flagged
C12_Witness ==
  /\ Len(leftPresenceHistoryRef) = 5 /\ Trues(leftPresenceHistoryRef) = 3
  /\ Len(rightPresenceHistoryRef) = 5 /\ Trues(rightPresenceHistoryRef) = 2
  /\ visibilityStateRef.left /\ ~visibilityStateRef.right

\* C13: while isReady is false no start action (Start button, Enter key) takes
\* the sequencer out of IDLE: no countdown begins and no record timer is
\* scheduled.
C13_NoStartBeforeReady ==
  [][(/\ ~isReady /\ mode = "IDLE"
      /\ op' \in {"EnterStart", "EnterIgnored", "handleQuickCapture"})
       => (mode' = "IDLE" /\ countdown' = countdown /\ timers' = timers)]_vars

\* C14: once the modal is closed no Camera it started is running or being
\* started, also when the close comes while getUserMedia or camera.start()
\* is pending.
C14_ClosedModalHasNoCamera ==
  ~isOpen => camera \notin {"starting", "running"}

\* uploads the worker pool of uploadAll is awaiting
PoolInFlight == Cardinality({w \in DOMAIN pool.workers : pool.workers[w] # 0})

\* C15: while uploadAll runs, the number of uploads its pool has in flight
\* never exceeds the smaller of the concurrency setting and the number of
\* pending items, both taken when uploadAll was invoked.
C15_PoolBounded ==
  uploadingAll => PoolInFlight <= Min(pool.concurrency, Len(pool.items))

\* the pool is full and more items are queued behind it
C15_Witness ==
  /\ uploadingAll
  /\ PoolInFlight = pool.concurrency
  /\ pool.concurrency < Len(pool.items)
  /\ pool.idx < Len(pool.items)

\* a step in which the pool records the outcome of one item: the item ends
\* done or in error with a message, and apart from the item the worker
\* begins next no other item changes
OutcomeRecorded ==
  \E w \in DOMAIN pool.workers :
    LET i == pool.workers[w]
    IN /\ i # 0
       /\ files'[i].status \in {"done", "error"}
       /\ files'[i].message # ""
       /\ \A j \in DOMAIN files \ {i} :
            \/ files'[j] = files[j]
            \/ /\ files[j].status = "pending"
               /\ files'[j] = BeginUpload(files, j)[j]

C17_ScenarioYieldsSample ==
  scenario.fed = Scenario.frames =>
    scenario.buffered = 60 /\ scenario.emitted = 1 /\ scenario.sampleLen = 60

\* C17 amended: once the 200 frames of the scenario are fed, one frame in
\* ten has passed the gate, so 19 or 20 frames are buffered, the target of
\* 60 is not reached and no Sample has been emitted.
C17_ScenarioBuffersTwenty ==
  scenario.fed = Scenario.frames =>
    scenario.buffered \in {19, 20} /\ scenario.emitted = 0 /\ scenario.recording

C17_Witness ==
  scenario.fed = Scenario.frames /\ scenario.buffered = 20

\* frames of the frameset with at least one landmark on either side
FramesWithLandmarks ==
  Cardinality({i \in DOMAIN qualityFrames :
     Len(qualityFrames[i].left_hand) + Len(qualityFrames[i].right_hand) > 0})

C19_RecordingOnlyAtZero == recordingRef => countdown = 0
\* C20: the record timer that ends the countdown leaves the sampling gate
\* open: the detection frame that arrives first after it is never dropped by
\* the frame-interval gate.
C20_FirstFrameEligible ==
  [][op = "recordTimer" /\ recordingRef /\ ~pausedRef => op' # "onResultsGated"]_vars
\* C21: two frames stored one after the other in the same buffer were
\* appended at least FRAME_INTERVAL_MS apart, pauses included; nothing
\* bounds the spacing from above.
C21_MinimumSpacing ==
  [][Len(framesRef') > Len(framesRef) /\ Len(framesRef) > 0
       => sinceLastAppend >= FRAME_INTERVAL_MS]_vars

\* a callback has just appended a frame behind another one
C21_Witness ==
  /\ op \in {"onResultsStored", "onResultsCompleted"}
  /\ Len(framesRef) >= 2
  /\ sinceLastAppend = 0
\* the outcomes of a detection callback
CallbackOps == {"onResultsPreview", "onResultsGated", "onResultsStored",
                "onResultsSkipped", "onResultsCompleted"}

\* C22: while paused, a detection callback leaves the buffer and the
\* last-sample time as they are; resuming keeps the buffer and sets the
\* last-sample time to the instant of the resume.
C22_PauseFreezesSampling ==
  [][/\ pausedRef /\ op' \in CallbackOps
          => framesRef' = framesRef /\ sinceLastFrame' = sinceLastFrame
     /\ recordingRef /\ pausedRef /\ op' \in {"handleResume", "Space"}
          => framesRef' = framesRef /\ sinceLastFrame' = 0 /\ ~pausedRef']_vars

\* a callback has run while paused, with frames in the buffer and the
\* interval since the last sample elapsed
C22_Witness ==
  /\ op = "onResultsPreview"
  /\ recordingRef /\ pausedRef
  /\ Len(framesRef) > 0
  /\ sinceLastFrame >= FRAME_INTERVAL_MS
\* C23: a callback that passes the sampling gate and whose frame is not
\* accepted leaves the buffer and captures_completed as they are and emits
\* no Sample, while the last-sample time is set to the callback's instant.
C23_RejectedFrameSkipped ==
  [][(op' \in {"onResultsSkipped", "onResultsCompleted"}
        /\ lastCapture'.left + lastCapture'.right = 0)
       => /\ framesRef' = framesRef
          /\ completedCapturesRef' = completedCapturesRef
          /\ lastSample' = lastSample
          /\ sinceLastFrame' = 0]_vars
\* C24: the buffer grows only in a detection callback, and only while the
\* sequencer is in RECORD, recording and not paused: never in IDLE, in
\* COUNTDOWN, while paused or during the settle delay.
C24_AppendsOnlyWhileRecording ==
  [][Len(framesRef') > Len(framesRef)
       => /\ op' \in CallbackOps
          /\ recordingRef /\ ~pausedRef
          /\ mode = "RECORD"]_vars
\* C25: the reset that follows the last capture of a batch leaves the
\* sequencer in IDLE, not recording, with an empty buffer and
\* captures_completed = 0, clears the label and keeps the user of the batch.
C25_FinalReset ==
  [][op' = "finalTimer"
       => /\ mode' = "IDLE" /\ ~recordingRef'
          /\ framesRef' = <<>>
          /\ completedCapturesRef' = 0
          /\ labelRef' = ""
          /\ userRef' = userRef /\ userRef' = batchUser]_vars

\* the reset has run after a batch of FIXED_CAPTURE_COUNT samples
C25_Witness ==
  /\ op = "finalTimer"
  /\ samplesInBatch = FIXED_CAPTURE_COUNT
  /\ mode = "IDLE" /\ labelRef = "" /\ userRef = "u" /\ batchLabel = "a"
\* the last-known fallback of one side in a callback step: `raw` is the
\* side's slot after classification, `vote` its presence vote, `before` and
\* `after` its last-known set, `captured` the size of its capture set
FallbackSound(raw, vote, before, after, captured) ==
  /\ ~DetectedNow(raw) /\ ~vote => after = Undefined
  /\ op' \in GatePassedOps /\ ~raw.def /\ captured > 0
       => vote /\ before.def /\ captured = Len(before.lms)

\* C26: the last-known landmark set of a side stands in for a hand that is
\* not detected only if the side's presence vote is true and a last-known
\* set exists, and a side that is neither detected nor voted present loses
\* its last-known set, so no stale set is used once the vote is false.
C26_LastKnownFallback ==
  [][op' \in CallbackOps
       => /\ FallbackSound(lastClassified'.left, visibilityStateRef'.left,
                           lastRenderedLeftRef, lastRenderedLeftRef', lastCapture'.left)
          /\ FallbackSound(lastClassified'.right, visibilityStateRef'.right,
                           lastRenderedRightRef, lastRenderedRightRef', lastCapture'.right)]_vars

\* a stored frame whose only landmarks are a last-known set: nothing was
\* detected in the callback
C26_Witness ==
  /\ op = "onResultsStored"
  /\ lastResults = <<>>
  /\ lastCapture.left + lastCapture.right > 0
\* C27: a callback that stores a frame puts it behind the frames already in
\* the buffer, a Sample carries the buffer as it stands, and the payload
\* built from a Sample lists the Sample's frames in the same order, the
\* i-th with timestamp i - 1, under the Sample's label and user and the
\* session id.
C27_FramesInArrivalOrder ==
  /\ [][op' \in CallbackOps /\ framesRef' # framesRef /\ framesRef' # <<>>
          => /\ Len(framesRef') = Len(framesRef) + 1
             /\ SubSeq(framesRef', 1, Len(framesRef)) = framesRef]_vars
  /\ [][op' = "onResultsCompleted" /\ framesRef' # <<>>
          => lastSample'[1].frames = framesRef']_vars
  /\ [](lastSample # <<>> =>
          LET sample == lastSample[1]
              payload == sample.payload
          IN /\ payload.label = sample.label
             /\ payload.user = sample.user
             /\ payload.session_id = sessionId
             /\ Len(payload.frames) = Len(sample.frames)
             /\ \A i \in 1..Len(sample.frames) :
                  /\ payload.frames[i].timestamp = i - 1
                  /\ payload.frames[i].landmarks = sample.frames[i])

\* a Sample of two different frames has been emitted
C27_Witness ==
  /\ lastSample # <<>>
  /\ Len(lastSample[1].frames) = FIXED_TARGET_FRAMES
  /\ lastSample[1].frames[1] # lastSample[1].frames[2]
  /\ lastSample[1].payload.frames[2].timestamp = 1
\* C28: closing while recording, or with 1 to target - 1 frames in the
\* buffer, goes through a confirmation; when it is declined every variable
\* of the sequencer and the camera stays as it was and the modal stays open.
C28_DeclinedCloseChangesNothing ==
  [][(/\ recordingRef \/ (Len(framesRef) > 0 /\ Len(framesRef) < FIXED_TARGET_FRAMES)
      /\ op' \in {"handleClose", "handleCloseConfirmed", "handleCloseCancelled"})
       => /\ op' # "handleClose"
          /\ op' = "handleCloseCancelled" => UNCHANGED <<captureVars, pageVars>>]_vars

\* a close has been declined while recording with a partial buffer
C28_Witness ==
  /\ op = "handleCloseCancelled"
  /\ isOpen /\ recordingRef
  /\ Len(framesRef) > 0 /\ Len(framesRef) < FIXED_TARGET_FRAMES
  /\ camera = "running"

PoolItems == {pool.items[k] : k \in DOMAIN pool.items}

C31_UploadAllGuards ==
  [][/\ ((op' \in {"uploadAll", "uploadAllOnError"})
          /\ (\/ \E i \in DOMAIN files : validateFile(files[i]) # {}
              \/ \A i \in DOMAIN files : files[i].status # "pending"))
          => /\ op' = "uploadAllOnError"
             /\ UNCHANGED <<files, pool, retries>>
             /\ ~uploadingAll /\ ~uploadingAll'
     /\ (op' = "uploadAllOnError")
          => (\/ \E i \in DOMAIN files : validateFile(files[i]) # {}
              \/ \A i \in DOMAIN files : files[i].status # "pending")]_vars

\* uploadAll has just been turned away although a valid file is pending,
\* because a file that failed earlier was edited into an invalid one
C31_Witness ==
  /\ op = "uploadAllOnError"
  /\ \E i \in DOMAIN files : files[i].status = "pending" /\ validateFile(files[i]) = {}
  /\ \E i \in DOMAIN files : files[i].status = "error" /\ validateFile(files[i]) # {}

\* C32: when uploadAll finishes with the success of an upload that returned a
\* backend id, onSuccess is called with a {fileId, uploadedId} entry for that
\* item.
C32_OnSuccessReportsRun ==
  [][\A i \in PoolItems :
       (/\ uploadingAll /\ ~uploadingAll'
        /\ files[i].status = "uploading"
        /\ files'[i].status = "done"
        /\ files'[i].uploadedId # NoId)
         => \E n \in DOMAIN pool'.onSuccess :
              pool'.onSuccess[n] = [fileId |-> i, uploadedId |-> files'[i].uploadedId]]_vars

\* the status changes the uploader allows
StatusSteps == {<<"pending", "uploading">>, <<"pending", "error">>,
                <<"uploading", "done">>, <<"uploading", "error">>,
                <<"error", "uploading">>, <<"error", "error">>}

\* C33: the status of an item changes only along pending -> uploading,
\* pending -> error, uploading -> done, uploading -> error and error ->
\* uploading; an item that is done stays done and keeps its uploadedId.
C33_StatusTransitions ==
  [][\A i \in DOMAIN files :
       /\ (files'[i].status # files[i].status)
            => <<files[i].status, files'[i].status>> \in StatusSteps
       /\ (files[i].status = "done")
            => /\ files'[i].status = "done"
               /\ files'[i].uploadedId = files[i].uploadedId
               /\ files[i].uploadedId = BackendId]_vars

\* the only file of the list failed in the pool and has just succeeded
\* through its retry button
C33_Witness ==
  /\ op = "retrySettles"
  /\ Len(files) = 1
  /\ files[1].status = "done"
  /\ files[1].uploadedId = BackendId
  /\ files[1].poolSubmits = 1

\* C34: captures_completed stays within 0..captures_requested, and no more
\* than captures_requested Samples are emitted after one start, whatever the
\* order of detection callbacks, timers and start key presses.
C34_CapturesBounded ==
  /\ completedCapturesRef \in 0..FIXED_CAPTURE_COUNT
  /\ samplesInBatch \in 0..FIXED_CAPTURE_COUNT

\* C35: a start is accepted only while no capture sequence is pending, so at
\* most one record-start timer is pending at any time.
C35_SingleRecordTimer == Cardinality(RecordTimers) <= 1

\* C36: the displayed mode agrees with the recording flag and the countdown:
\* mode is RECORD exactly when recording is true, and COUNTDOWN exactly when
\* countdown > 0.
C36_ModeConsistent ==
  /\ (mode = "RECORD") <=> recordingRef
  /\ (mode = "COUNTDOWN") <=> (countdown > 0)

\* C37: the paused flag is true only while recording is true, so no capture
\* starts in an already-paused condition.
C37_PausedOnlyWhileRecording == pausedRef => recordingRef

\* C38: no accepted frame is lost through the mirroring of the buffer: the
\* Sample of a capture holds every frame the capture pushed to framesRef, in
\* the order of the pushes, whenever the effect that copies frames into
\* framesRef runs.
C38_NoFrameLostByMirroring ==
  (mirror.sample # <<>>) => (mirror.sample = mirror.pushed)

\* the ids of the listed samples are pairwise distinct
DistinctIds(samples) ==
  \A m, n \in DOMAIN samples : m # n => samples[m].id # samples[n].id

\* C39: in CaptureCamera a Sample enters the list only when its upload
\* succeeded, a failed upload leaves the list as it is and reports through
\* onError, and the ids of the listed samples are pairwise distinct, also
\* with several uploads in flight that complete in any order.
C39_SamplesListedOnceUploaded ==
  [][/\ (Len(collector'.samples) > Len(collector.samples))
          => /\ op' = "uploadCameraOk"
             /\ Len(collector'.samples) = Len(collector.samples) + 1
     /\ (op' = "uploadCameraFailed")
          => /\ collector'.samples = collector.samples
             /\ collector'.errors = collector.errors + 1
     /\ DistinctIds(collector'.samples)]_vars

====
